---------------------------- MODULE Spec2Model ----------------------------
(***************************************************************************)
(* A model of cornertable.c: the perfect hash of the eight corner cubies   *)
(* (corner_value, corner_map), the generator of the corner heuristics      *)
(* table (corner_generate) and the persistence of the packed table         *)
(* (corner_write, corner_read).                                            *)
(*                                                                         *)
(* The cube module (CUBIE, cube_turn, SHOULDIAVOID), the stack module, the *)
(* macros of cornertable.h and the C library's streams are not part of     *)
(* cornertable.c; they are modelled here from their documented behaviour.  *)
(* The byte CORNER_TABLE_CLEAR fills a table with is not fixed by          *)
(* cornertable.c: a run is made with each byte of ClearBytes.              *)
(***************************************************************************)
EXTENDS Integers, Sequences, FiniteSets, TLC

VARIABLES
    \* ---- corner_generate ----
    pc,           \* "loop" while the main loop runs, "returned" after return 1
    solution,     \* the reference cube passed to corner_generate
    clearByte,    \* the byte CORNER_TABLE_CLEAR sets every byte of a table to
    cornertable,  \* the packed table T
    instack,      \* the packed visited table V
    stack,        \* the stack of frames [cube_data, turn, distance]
    count,        \* total hashed
    popcount,     \* total traversed
    depth,        \* the current target depth
    retval,       \* corner_generate's return value, -1 until it returns
    lastPop,      \* history: what the last pass of the loop did with its item
    shallowest,   \* history: index -> the least distance at which the for loop
                  \* pushed it in this iteration, for the indexes it pushed
    \* ---- corner_map called on its own ----
    mapA, mapB,   \* two cube states handed to corner_map
    mapProbe,     \* an index of the table handed to the decoder
    mapOut,       \* corner_map of mapA, of mapB and of the probe's cube
    mapDigits,    \* what the seven calls of corner_value returned, in the call
                  \* on mapA and in the call on the probe's cube
    \* ---- corner_write / corner_read ----
    ioTable,      \* the table handed to corner_write
    ioBuffered,   \* whether the output stream is buffered
    ioSinkCap,    \* how many bytes the output's file accepts
    ioFile,       \* the bytes the file holds
    ioPending,    \* the bytes the output stream holds in its buffer
    ioBuffer,     \* the table handed to corner_read
    ioWriteRet,   \* corner_write's return value, -1 before the call
    ioReadRet,    \* corner_read's return value, -1 before the call
    ioCloseRet,   \* fclose's return value, 0 or EOF (-1); 1 before the call
    ioAccepted,   \* history: the bytes the output took from corner_write, in
                  \* its file and its buffer; -1 before the call
    ioSupplied,   \* history: the bytes the input had for corner_read; -1
                  \* before the call
    ioTrace       \* history: the calls made, in order

genVars == <<pc, solution, clearByte, cornertable, instack, stack, count,
            popcount, depth, retval, lastPop, shallowest>>
mapVars == <<mapA, mapB, mapProbe, mapOut, mapDigits>>
ioVars  == <<ioTable, ioBuffered, ioSinkCap, ioFile, ioPending, ioBuffer,
            ioWriteRet, ioReadRet, ioCloseRet, ioAccepted, ioSupplied, ioTrace>>
vars    == <<genVars, mapVars, ioVars>>

-----------------------------------------------------------------------------
(***************************************************************************)
(* The cube state, as far as cornertable.c reads it.                       *)
(***************************************************************************)

\* The eight corner positions among the 20 cubie positions.
CornerPositions == {0, 2, 5, 7, 12, 14, 17, 19}

\* int corner_index[]: maps corner locations to indexes 0-7.
corner_index ==
    (0 :> 0) @@ (2 :> 1) @@ (5 :> 2) @@ (7 :> 3) @@
    (12 :> 4) @@ (14 :> 5) @@ (17 :> 6) @@ (19 :> 7)

\* CUBIE(cube, p): the two chars of position p, <<cubie, orientation>>.
\* CUBIE(cube, p)[0] of the code is CUBIE(cube, p)[1] here, [1] is [2].
CUBIE(cubestr, p) == cubestr[p]

\* A cube whose corner slots all hold their own cubie with orientation 0.
SolvedCube == [p \in CornerPositions |-> <<p, 0>>]

-----------------------------------------------------------------------------
(***************************************************************************)
(* corner_value and corner_map                                             *)
(***************************************************************************)

\* A mutant of corner_value: the loop starts at the position itself.
corner_value_from_position(position, corner_slot_value) ==
    LET pos == corner_index[position]
        dec == [i \in 0..7 |-> IF i >= pos
                                 THEN corner_slot_value[i] - 1
                                 ELSE corner_slot_value[i]]
    IN  [slots |-> dec, value |-> dec[pos]]

\* corner_value(position, corner_slot_value): decrements the value of every
\* slot after the position and returns the value of the position's slot.
\* The array is updated in place in the code; here the new array is returned
\* beside the value.
corner_value(position, corner_slot_value) ==
    LET pos == corner_index[position]
        dec == [i \in 0..7 |-> IF i >= pos + 1
                                 THEN corner_slot_value[i] - 1
                                 ELSE corner_slot_value[i]]
    IN  [slots |-> dec, value |-> dec[pos]]

\* A mutant of position_value: corner_slot_value is initialised to 1..8.
position_value_one_based(cubestr) ==
    LET s0 == [i \in 0..7 |-> i + 1]
        r0 == corner_value(CUBIE(cubestr, 0)[1], s0)
        r1 == corner_value(CUBIE(cubestr, 2)[1], r0.slots)
        r2 == corner_value(CUBIE(cubestr, 5)[1], r1.slots)
        r3 == corner_value(CUBIE(cubestr, 7)[1], r2.slots)
        r4 == corner_value(CUBIE(cubestr, 12)[1], r3.slots)
        r5 == corner_value(CUBIE(cubestr, 14)[1], r4.slots)
        r6 == corner_value(CUBIE(cubestr, 17)[1], r5.slots)
    IN  <<r0.value, r1.value, r2.value, r3.value, r4.value, r5.value, r6.value>>

\* The seven digits position_value[0..6] of corner_map, most significant
\* first, from one shared corner_slot_value array.
position_value(cubestr) ==
    LET s0 == [i \in 0..7 |-> i]
        r0 == corner_value(CUBIE(cubestr, 0)[1], s0)
        r1 == corner_value(CUBIE(cubestr, 2)[1], r0.slots)
        r2 == corner_value(CUBIE(cubestr, 5)[1], r1.slots)
        r3 == corner_value(CUBIE(cubestr, 7)[1], r2.slots)
        r4 == corner_value(CUBIE(cubestr, 12)[1], r3.slots)
        r5 == corner_value(CUBIE(cubestr, 14)[1], r4.slots)
        r6 == corner_value(CUBIE(cubestr, 17)[1], r5.slots)
    IN  <<r0.value, r1.value, r2.value, r3.value, r4.value, r5.value, r6.value>>

\* A mutant of corner_map: the digit of the fourth corner is weighted with the
\* radix of the third.
corner_map_radix_slip(cubestr) ==
    LET pv == position_value(cubestr)
    IN    pv[1] *3*3*3*3*3*3*3 * 2*3*4*5*6*7
        + pv[2] *3*3*3*3*3*3*3 * 2*3*4*5*6
        + pv[3] *3*3*3*3*3*3*3 * 2*3*4*5
        + pv[4] *3*3*3*3*3*3*3 * 2*3*4*5
        + pv[5] *3*3*3*3*3*3*3 * 2*3
        + pv[6] *3*3*3*3*3*3*3 * 2
        + pv[7] *3*3*3*3*3*3*3
        + CUBIE(cubestr, 0)[2]  *3*3*3*3*3*3
        + CUBIE(cubestr, 2)[2]  *3*3*3*3*3
        + CUBIE(cubestr, 5)[2]  *3*3*3*3
        + CUBIE(cubestr, 7)[2]  *3*3*3
        + CUBIE(cubestr, 12)[2] *3*3
        + CUBIE(cubestr, 14)[2] *3
        + CUBIE(cubestr, 17)[2]

\* corner_map(cubestr): the index of a cube in the mixed radix system.  Every
\* partial sum stays below 2^31, so the int arithmetic of the code is exact.
corner_map(cubestr) ==
    LET pv == position_value(cubestr)
    IN    pv[1] *3*3*3*3*3*3*3 * 2*3*4*5*6*7
        + pv[2] *3*3*3*3*3*3*3 * 2*3*4*5*6
        + pv[3] *3*3*3*3*3*3*3 * 2*3*4*5
        + pv[4] *3*3*3*3*3*3*3 * 2*3*4
        + pv[5] *3*3*3*3*3*3*3 * 2*3
        + pv[6] *3*3*3*3*3*3*3 * 2
        + pv[7] *3*3*3*3*3*3*3
        + CUBIE(cubestr, 0)[2]  *3*3*3*3*3*3
        + CUBIE(cubestr, 2)[2]  *3*3*3*3*3
        + CUBIE(cubestr, 5)[2]  *3*3*3*3
        + CUBIE(cubestr, 7)[2]  *3*3*3
        + CUBIE(cubestr, 12)[2] *3*3
        + CUBIE(cubestr, 14)[2] *3
        + CUBIE(cubestr, 17)[2]

-----------------------------------------------------------------------------
(***************************************************************************)
(* The face turns of the cube module, restricted to the corners.           *)
(*                                                                         *)
(* The corner with number k = corner_index[p] sits at column k % 2, row    *)
(* (k \div 2) % 2 and layer k \div 4.  Face f turns the four corners of    *)
(* one side (f % 2) of one axis (f \div 2: 0 the layers, 1 the rows, 2 the *)
(* columns).  Turn i turns face i \div 3 by (i % 3) + 1 quarter turns.     *)
(* Orientation 0 is the one with the cubie's layer sticker on a layer      *)
(* face: a quarter turn of a layer face keeps the orientation, one of a    *)
(* row or column face adds 1 or 2 by the place the cubie arrives at.       *)
(***************************************************************************)

\* The corners of each face in the order a quarter turn moves them:
\* FaceCycle[f+1][j] moves to FaceCycle[f+1][j+1], the last to the first.
FaceCycle ==
    << <<0, 2, 7, 5>>,   <<17, 19, 14, 12>>,
       <<0, 2, 14, 12>>, <<17, 19, 7, 5>>,
       <<0, 5, 17, 12>>, <<14, 19, 7, 2>> >>

\* The parity of column + row + layer of a corner position.
CornerParity(p) ==
    LET k == corner_index[p]
    IN  ((k % 2) + ((k \div 2) % 2) + (k \div 4)) % 2

\* What a quarter turn about `axis` adds to the orientation of the cubie that
\* arrives at position p.
QuarterTwist(p, axis) ==
    CASE axis = 0 -> 0
      [] axis = 1 -> IF CornerParity(p) = 1 THEN 2 ELSE 1
      [] axis = 2 -> IF CornerParity(p) = 1 THEN 1 ELSE 2

\* One quarter turn of face f.
QuarterTurn(cube, f) ==
    LET cyc == FaceCycle[f + 1]
    IN  [p \in CornerPositions |->
            IF \E j \in 1..4 : cyc[j] = p
              THEN LET j   == CHOOSE x \in 1..4 : cyc[x] = p
                       src == cyc[IF j = 1 THEN 4 ELSE j - 1]
                   IN  << cube[src][1],
                          (cube[src][2] + QuarterTwist(p, f \div 2)) % 3 >>
              ELSE cube[p]]

\* cube_turn(cube, i) for i in 0..17.
cube_turn(cube, i) ==
    LET f  == i \div 3
        q1 == QuarterTurn(cube, f)
        q2 == QuarterTurn(q1, f)
    IN  CASE i % 3 = 0 -> q1
          [] i % 3 = 1 -> q2
          [] i % 3 = 2 -> QuarterTurn(q2, f)

\* SHOULDIAVOID(i, t): turn i is redundant after turn t: the same face again,
\* or the opposite face in the second of the two orders.
SHOULDIAVOID(i, t) ==
    \/ i \div 3 = t \div 3
    \/ /\ (i \div 3) \div 2 = (t \div 3) \div 2
       /\ i \div 3 > t \div 3


-----------------------------------------------------------------------------
(***************************************************************************)
(* The bounds of the model.                                                *)
(*                                                                         *)
(* The generator makes all 18 turns and counts to 88179840, as the code    *)
(* does; a run of the model is its first MaxPops passes of the while loop. *)
(* With the clear byte 255 the loop is left after 602469097 passes; with   *)
(* the clear byte 0 no turned cube passes the filter and the counter stays *)
(* at 1.  No run of the model gets to the return.                          *)
(***************************************************************************)

\* Line 230: the number of turns the for loop tries.
Branching == 18

\* Line 179: the number of entries to be counted.
TOTAL == 88179840

\* The passes of the while loop a run of the model makes.
MaxPops == 6400

\* The reference cubes tried: the solved cube after at most MaxScramble
\* quarter turns of one face.
MaxScramble == 1

\* The greatest number of turns for which the cubes at that number of turns
\* from the reference cube are computed.
MaxLevel == 3

\* The length of the table handed to corner_write and corner_read.
IOBytes == 3

\* The length of the buffer of a buffered output stream.
BufBlock == 2

\* corner_map's inputs: the solved cube turned at most MaxMapTurns times.
MaxMapTurns == 1

\* The cubes within n turns of the set `from`, by the turns of `turns`.
RECURSIVE Within(_, _, _)
Within(from, turns, n) ==
    IF n = 0 THEN from
    ELSE Within(from \cup {cube_turn(s, i) : s \in from, i \in turns}, turns, n - 1)

\* The reference cubes of the model.
RefCubes == Within({SolvedCube}, {9}, MaxScramble)

-----------------------------------------------------------------------------
(***************************************************************************)
(* The packed tables: 44089920 unsigned chars, two 4-bit entries in each.  *)
(* A table is held as the byte it was last filled with and the bytes       *)
(* stored into it since.                                                   *)
(***************************************************************************)

\* a | b and a & b on non-negative ints.
RECURSIVE BitOr(_, _)
BitOr(a, b) ==
    IF a = 0 THEN b
    ELSE IF b = 0 THEN a
    ELSE (IF a % 2 = 1 \/ b % 2 = 1 THEN 1 ELSE 0) + 2 * BitOr(a \div 2, b \div 2)

RECURSIVE BitAnd(_, _)
BitAnd(a, b) ==
    IF a = 0 \/ b = 0 THEN 0
    ELSE (IF a % 2 = 1 /\ b % 2 = 1 THEN 1 ELSE 0) + 2 * BitAnd(a \div 2, b \div 2)

\* a << n and a >> n on non-negative ints.
ShiftLeft(a, n) == a * (2 ^ n)
ShiftRight(a, n) == a \div (2 ^ n)

\* A store into an unsigned char.
UChar(x) == x % 256

\* No byte stored.
NoBytes == [b \in {} |-> 0]

\* table[b]
ByteAt(table, b) ==
    IF b \in DOMAIN table.stored THEN table.stored[b] ELSE table.fill

\* table[b] = v
Store(table, b, v) ==
    [fill |-> table.fill, stored |-> (b :> v) @@ table.stored]

\* CORNER_TABLE_NEW: a zero-filled table.
CORNER_TABLE_NEW == [fill |-> 0, stored |-> NoBytes]

\* The bytes CORNER_TABLE_CLEAR may fill a table with.  The macro is defined
\* in cornertable.h.  0 is the byte of a table cleared to zero: every entry
\* holds 0.  255 is the byte that makes every entry 15, greater than every
\* distance: the only test the visited filter makes is instack entry <=
\* distance + 1 (lines 244-248), which is true of every entry that holds 0.
ClearBytes == {0, 255}

\* CORNER_TABLE_CLEAR(table): every byte of the table set to the clear byte.
CORNER_TABLE_CLEAR(table) == [fill |-> clearByte, stored |-> NoBytes]

\* The indexes of the entries of the bytes stored into a table.
StoredIndexes(table) ==
    {2 * b : b \in DOMAIN table.stored} \cup {2 * b + 1 : b \in DOMAIN table.stored}

-----------------------------------------------------------------------------
(***************************************************************************)
(* The stack module: a LIFO of frames.                                     *)
(***************************************************************************)

stack_push(stk, cube, turn, distance) ==
    Append(stk, [cube_data |-> cube, turn |-> turn, distance |-> distance])

\* stack_peek_cube, stack_peek_turn and stack_peek_distance read one frame.
stack_peek(stk) == stk[Len(stk)]

stack_pop(stk) == SubSeq(stk, 1, Len(stk) - 1)

-----------------------------------------------------------------------------
(***************************************************************************)
(* corner_generate                                                         *)
(***************************************************************************)

\* Lines 182-188: if the stack is empty, go up a level.
LevelStart(stk, d, table) ==
    IF Len(stk) = 0
      THEN [stack   |-> stack_push(stk, solution, -1, 0),
            depth   |-> d + 1,
            instack |-> CORNER_TABLE_CLEAR(table)]
      ELSE [stack |-> stk, depth |-> d, instack |-> table]

\* A mutant of TableRecord: the entry is or-ed also when it is set already.
TableRecord_or_duplicates(table, n, hash, distance) ==
    IF hash % 2 = 1
      THEN [cornertable |->
                Store(table, (hash - 1) \div 2,
                      UChar(BitOr(ByteAt(table, (hash - 1) \div 2),
                                  ShiftLeft(distance, 4)))),
            count |-> IF ShiftRight(ByteAt(table, (hash - 1) \div 2), 4) = 0
                        THEN n + 1 ELSE n]
      ELSE [cornertable |->
                Store(table, hash \div 2,
                      UChar(BitOr(ByteAt(table, hash \div 2), distance))),
            count |-> IF BitAnd(ByteAt(table, hash \div 2), 15) = 0
                        THEN n + 1 ELSE n]

\* Lines 213-227: add the item to the hash table unless its entry is set.
TableRecord(table, n, hash, distance) ==
    IF hash % 2 = 1
      THEN IF ShiftRight(ByteAt(table, (hash - 1) \div 2), 4) = 0
             THEN [cornertable |->
                       Store(table, (hash - 1) \div 2,
                             UChar(BitOr(ByteAt(table, (hash - 1) \div 2),
                                         ShiftLeft(distance, 4)))),
                   count |-> n + 1]
             ELSE [cornertable |-> table, count |-> n]
      ELSE IF BitAnd(ByteAt(table, hash \div 2), 15) = 0
             THEN [cornertable |->
                       Store(table, hash \div 2,
                             UChar(BitOr(ByteAt(table, hash \div 2), distance))),
                   count |-> n + 1]
             ELSE [cornertable |-> table, count |-> n]

\* Lines 244-248: the turned cube is in instack at this or a smaller distance.
InstackSkip(table, hash, distance) ==
    IF hash % 2 = 1
      THEN ShiftRight(ByteAt(table, (hash - 1) \div 2), 4) <= distance + 1
      ELSE BitAnd(ByteAt(table, hash \div 2), 15) <= distance + 1

\* A mutant of InstackAdd: the byte is assigned, not masked and or-ed.
InstackAdd_assign(table, hash, distance) ==
    IF hash % 2 = 1
      THEN Store(table, (hash - 1) \div 2, UChar(ShiftLeft(distance + 1, 4)))
      ELSE Store(table, hash \div 2, UChar(distance + 1))

\* Lines 250-256: add to instack.
InstackAdd(table, hash, distance) ==
    IF hash % 2 = 1
      THEN Store(table, (hash - 1) \div 2,
                 UChar(BitOr(BitAnd(ByteAt(table, (hash - 1) \div 2), 15),
                             ShiftLeft(distance + 1, 4))))
      ELSE Store(table, hash \div 2,
                 UChar(BitOr(BitAnd(ByteAt(table, hash \div 2), ShiftLeft(15, 4)),
                             distance + 1)))

\* A mutant of PushTurn: no turn is skipped as redundant.
PushTurn_no_avoid(i, current, acc) ==
    CHOOSE nxt \in
        {LET hash == corner_map(turned)
         IN  IF InstackSkip(acc.instack, hash, current.distance)
               THEN acc
               ELSE [instack |-> InstackAdd(acc.instack, hash, current.distance),
                     stack   |-> stack_push(acc.stack, turned, i,
                                            current.distance + 1)] :
         turned \in {cube_turn(current.cube_data, i)}} : TRUE

\* Lines 231-259: the body of the for loop for turn i, on the visited table
\* and the stack as the earlier turns left them.
PushTurn(i, current, acc) ==
    IF current.turn # -1 /\ SHOULDIAVOID(i, current.turn)
      THEN acc
    ELSE CHOOSE nxt \in
             {LET hash == corner_map(turned)
              IN  IF InstackSkip(acc.instack, hash, current.distance)
                    THEN acc
                    ELSE [instack |-> InstackAdd(acc.instack, hash,
                                                 current.distance),
                          stack   |-> stack_push(acc.stack, turned, i,
                                                 current.distance + 1)] :
              turned \in {cube_turn(current.cube_data, i)}} : TRUE

\* Lines 230-260: the for loop over the turns, from turn i on: nxt is what
\* the body of turn i leaves, computed before turn i + 1 is begun.
RECURSIVE PushTurns(_, _, _)
PushTurns(i, current, acc) ==
    IF i >= Branching THEN acc
    ELSE CHOOSE done \in {PushTurns(i + 1, current, nxt) :
                              nxt \in {PushTurn(i, current, acc)}} : TRUE

\* A mutant of AtTargetDepth: the test is made one level too deep.
AtTargetDepth_off_by_one(distance, d) == distance = d + 1

\* Line 211: the item is at the current target depth.
AtTargetDepth(distance, d) == distance = d

\* What a pass of the loop did with the item it popped: kind is "recorded"
\* when the item was added to the hash table, "duplicate" when its entry was
\* set already, "expanded" when its turns were put onto the stack.  level is
\* the target depth of the pass, pushed the number of frames it pushed,
\* lowered the number of those whose index had been pushed before in this
\* iteration.
PopNote(kind, current, d, pushed, lowered) ==
    [kind     |-> kind,
     hash     |-> corner_map(current.cube_data),
     distance |-> current.distance,
     level    |-> d,
     pushed   |-> pushed,
     lowered  |-> lowered]

NoPop ==
    [kind |-> "none", hash |-> 0, distance |-> 0, level |-> -1, pushed |-> 0,
     lowered |-> 0]

\* No index has been pushed by the for loop.
NonePushed == [i \in {} |-> 0]

\* The history of pushes as a pass of the loop finds it: empty when the pass
\* starts a new iteration.
PushesAtStart(stk, pushes) == IF Len(stk) = 0 THEN NonePushed ELSE pushes

\* The history of pushes after the frames `frames` were pushed.
RECURSIVE PushesAfter(_, _)
PushesAfter(pushes, frames) ==
    IF frames = <<>> THEN pushes
    ELSE LET f == Head(frames)
             h == corner_map(f.cube_data)
         IN  PushesAfter(IF h \in DOMAIN pushes /\ pushes[h] <= f.distance
                           THEN pushes
                           ELSE (h :> f.distance) @@ pushes,
                         Tail(frames))

\* The generator's variables as one record.
Generator ==
    [stack       |-> stack,
     cornertable |-> cornertable,
     instack     |-> instack,
     count       |-> count,
     popcount    |-> popcount,
     depth       |-> depth,
     lastPop     |-> lastPop,
     shallowest  |-> shallowest]

\* The generator's variables take the values of the record g.
Becomes(g) ==
    \E new \in {g} :
        /\ stack' = new.stack
        /\ cornertable' = new.cornertable
        /\ instack' = new.instack
        /\ count' = new.count
        /\ popcount' = new.popcount
        /\ depth' = new.depth
        /\ lastPop' = new.lastPop
        /\ shallowest' = new.shallowest

\* Lines 182-194: the item a pass of the loop pops.
Popped(g) == stack_peek(LevelStart(g.stack, g.depth, g.instack).stack)

\* Line 211 on the item a pass of the loop pops.
PopsAtTarget(g) ==
    AtTargetDepth(Popped(g).distance, LevelStart(g.stack, g.depth, g.instack).depth)

\* Lines 182-227: one pass of the while loop whose item is at the target depth.
RecordPass(g) ==
    LET lvl     == LevelStart(g.stack, g.depth, g.instack)
        current == stack_peek(lvl.stack)
    IN  CHOOSE new \in
            {[stack       |-> stack_pop(lvl.stack),
              cornertable |-> rec.cornertable,
              instack     |-> lvl.instack,
              count       |-> rec.count,
              popcount    |-> g.popcount + 1,
              depth       |-> lvl.depth,
              lastPop     |-> PopNote(IF rec.count # g.count THEN "recorded"
                                                             ELSE "duplicate",
                                      current, lvl.depth, 0, 0),
              shallowest  |-> PushesAtStart(g.stack, g.shallowest)] :
             rec \in {TableRecord(g.cornertable, g.count,
                                  corner_map(current.cube_data),
                                  current.distance)}} : TRUE

\* Lines 182-211 and 228-261: one pass of the while loop whose item is above
\* the target depth.
ExpandPass(g) ==
    LET lvl     == LevelStart(g.stack, g.depth, g.instack)
        current == stack_peek(lvl.stack)
    IN  CHOOSE new \in
            {[stack       |-> pushed.stack,
              cornertable |-> g.cornertable,
              instack     |-> pushed.instack,
              count       |-> g.count,
              popcount    |-> g.popcount + 1,
              depth       |-> lvl.depth,
              lastPop     |-> PopNote("expanded", current, lvl.depth,
                                      Len(pushed.stack) - (Len(lvl.stack) - 1),
                                      Cardinality(
                                        {j \in Len(lvl.stack)..Len(pushed.stack) :
                                           corner_map(pushed.stack[j].cube_data)
                                             \in DOMAIN PushesAtStart(
                                                           g.stack,
                                                           g.shallowest)})),
              shallowest  |-> PushesAfter(PushesAtStart(g.stack, g.shallowest),
                                          SubSeq(pushed.stack, Len(lvl.stack),
                                                 Len(pushed.stack)))] :
             pushed \in {PushTurns(0, current,
                                   [instack |-> lvl.instack,
                                    stack   |-> stack_pop(lvl.stack)])}} : TRUE

\* Lines 180-262: the body of the while loop.
LoopPass(g) == IF PopsAtTarget(g) THEN RecordPass(g) ELSE ExpandPass(g)

\* Lines 179-263: at most n passes of the while loop, ended early when the
\* stack is no longer than `floor` after a pass.  The passes are made in two
\* halves so that the evaluation nests no deeper than the logarithm of n.
RECURSIVE LoopPasses(_, _, _)
LoopPasses(g, n, floor) ==
    IF n = 0 \/ ~(g.count < TOTAL) THEN g
    ELSE IF n = 1 THEN LoopPass(g)
    ELSE CHOOSE done \in
             {IF Len(half.stack) <= floor
                THEN half
                ELSE LoopPasses(half, n - (n \div 2), floor) :
              half \in {LoopPasses(g, n \div 2, floor)}} : TRUE

\* The length of the stack once the item on top of it, and every item pushed
\* because of it, has been popped.
FloorOf(stk) == IF Len(stk) = 0 THEN 0 ELSE Len(stk) - 1

\* One pass of the while loop whose item is at the target depth.
GenerateRecord ==
    /\ pc = "loop"
    /\ count < TOTAL
    /\ popcount < MaxPops
    /\ PopsAtTarget(Generator)
    /\ Becomes(RecordPass(Generator))
    /\ UNCHANGED <<pc, solution, clearByte, retval>>

\* One pass of the while loop whose item is above the target depth.
GenerateExpand ==
    /\ pc = "loop"
    /\ count < TOTAL
    /\ popcount < MaxPops
    /\ ~PopsAtTarget(Generator)
    /\ Becomes(ExpandPass(Generator))
    /\ UNCHANGED <<pc, solution, clearByte, retval>>

\* The passes of the while loop from the one that pops the item on top of the
\* stack to the one after which that item, and every item pushed because of
\* it, has been popped: from an empty stack, a whole iteration.  The step is
\* two or more of the passes GenerateRecord and GenerateExpand make one by
\* one, taken together.
GenerateSubtree ==
    /\ pc = "loop"
    /\ count < TOTAL
    /\ popcount < MaxPops
    /\ \E done \in {LoopPasses(Generator, MaxPops - popcount, FloorOf(stack))} :
          /\ Len(done.stack) = FloorOf(stack)
          /\ done.popcount > popcount + 1
          /\ Becomes(done)
    /\ UNCHANGED <<pc, solution, clearByte, retval>>

\* Lines 264-270: the loop is left, the stack is emptied, 1 is returned.  The
\* counter is 88179840 only after more passes than a run of the model makes:
\* the step belongs to no specification of this module.
GenerateReturn ==
    /\ pc = "loop"
    /\ ~(count < TOTAL)
    /\ pc' = "returned"
    /\ stack' = <<>>
    /\ retval' = 1
    /\ UNCHANGED <<solution, clearByte, cornertable, instack, count, popcount,
                   depth, lastPop, shallowest>>

\* corner_generate(cornertable, solution) is entered with a zero-filled table.
GenInit ==
    /\ pc = "loop"
    /\ solution \in RefCubes
    /\ clearByte \in ClearBytes
    /\ cornertable = CORNER_TABLE_NEW
    /\ instack = CORNER_TABLE_NEW
    /\ stack = <<>>
    /\ count = 0
    /\ popcount = 0
    /\ depth = -1
    /\ retval = -1
    /\ lastPop = NoPop
    /\ shallowest = NonePushed

\* The generator as it is left when another function is the one called.
GenIdle ==
    /\ pc = "idle"
    /\ solution = SolvedCube
    /\ clearByte = 0
    /\ cornertable = CORNER_TABLE_NEW
    /\ instack = CORNER_TABLE_NEW
    /\ stack = <<>>
    /\ count = 0
    /\ popcount = 0
    /\ depth = -1
    /\ retval = -1
    /\ lastPop = NoPop
    /\ shallowest = NonePushed

-----------------------------------------------------------------------------
(***************************************************************************)
(* corner_map called on its own                                            *)
(***************************************************************************)

\* The size of the index space, 8! * 3^7.
HashRange == 88179840

\* The number of probed indexes beside the first and the last.
MaxProbes == 2

\* A cube with the orientation of the eighth corner slot advanced by k.
TwistLast(cube, k) ==
    [cube EXCEPT ![19] = <<cube[19][1], (cube[19][2] + k) % 3>>]

\* The cubes corner_map is called on.
MapInputs ==
    {TwistLast(s, k) : s \in Within({SolvedCube}, 0..17, MaxMapTurns), k \in 0..2}

\* The second cube of a call: the first one, or a cube one turn from it, with
\* any orientation of the eighth corner slot.
MapSeconds(a) ==
    {TwistLast(s, k) : s \in Within({a}, 0..17, 1), k \in 0..2}

\* The indexes handed to the decoder.
IndexProbes ==
    {0, HashRange - 1} \cup {(j * 12345701) % HashRange : j \in 1..MaxProbes}

\* The corner positions in the order of their indexes 0-7.
PositionOfIndex == <<0, 2, 5, 7, 12, 14, 17, 19>>

\* The n-th smallest (n from 0) number of a set of numbers.
NthOf(S, n) == CHOOSE x \in S : Cardinality({y \in S : y < x}) = n

\* The digit of weight w and radix r of an index.
Digit(index, w, r) == (index \div w) % r

\* The corner numbers the first k slots of an index's permutation hold.
RECURSIVE DecodedPrefix(_, _)
DecodedPrefix(index, k) ==
    IF k = 0 THEN <<>>
    ELSE LET before == DecodedPrefix(index, k - 1)
             used   == {before[j] : j \in 1..(k - 1)}
             weight == (3 ^ 7) * (IF k = 7 THEN 1 ELSE
                                     LET f[n \in 0..7] == IF n = 0 THEN 1 ELSE n * f[n - 1]
                                     IN  f[7 - (k - 1)])
         IN  Append(before, NthOf((0..7) \ used, Digit(index, weight, 8 - (k - 1))))

\* The cube an index stands for: its seven encoded slots, the eighth slot
\* holding the cubie that is left, with orientation 0.
CubeOfIndex(index) ==
    LET perm == DecodedPrefix(index, 7)
        last == CHOOSE c \in 0..7 : \A j \in 1..7 : perm[j] # c
    IN  [p \in CornerPositions |->
            IF p = 19 THEN <<PositionOfIndex[last + 1], 0>>
            ELSE << PositionOfIndex[perm[corner_index[p] + 1] + 1],
                    Digit(index, 3 ^ (6 - corner_index[p]), 3) >>]

\* What corner_map encodes of a cube: the first seven corner slots.
FirstSeven(cube) == [p \in CornerPositions \ {19} |-> cube[p]]

MapInit ==
    /\ mapA \in MapInputs
    /\ mapB \in MapSeconds(mapA)
    /\ mapProbe \in IndexProbes
    /\ mapOut = <<>>
    /\ mapDigits = <<>>

\* corner_map is called on the two cubes and on the cube of the probe.
MapCall ==
    /\ mapOut = <<>>
    /\ mapOut' = <<corner_map(mapA), corner_map(mapB),
                   corner_map(CubeOfIndex(mapProbe))>>
    /\ mapDigits' = <<position_value(mapA), position_value(CubeOfIndex(mapProbe))>>
    /\ UNCHANGED <<mapA, mapB, mapProbe>>

MapIdle ==
    /\ mapA = SolvedCube /\ mapB = SolvedCube /\ mapProbe = 0
    /\ mapOut = <<>> /\ mapDigits = <<>>

-----------------------------------------------------------------------------
(***************************************************************************)
(* corner_write and corner_read                                            *)
(*                                                                         *)
(* A table is a sequence of IOBytes bytes (44089920 in the code).  The     *)
(* output is a stream on a file that accepts ioSinkCap bytes.  fwrite on a *)
(* buffered stream hands the whole blocks of BufBlock bytes (4096 in the   *)
(* C library the code was run with) to the file and keeps the rest, 576    *)
(* bytes in the code, in the stream's buffer, from where fclose hands them *)
(* on.  fwrite returns how many bytes it placed, in the file or in the     *)
(* buffer, fread how many the file held, neither more than was asked for.  *)
(* fclose returns 0, or EOF when the file did not take all of the buffer.  *)
(* The input is a stream of its own on the same file.  corner_write and    *)
(* corner_read neither open nor close a stream: the closing of the output  *)
(* between a write and a read is the step of the file round trip (write to *)
(* a sink, read back) that makes the written bytes readable.               *)
(***************************************************************************)

\* The byte values of the tables and files of the model.
ByteValues == {0, 115}

Min(a, b) == IF a < b THEN a ELSE b

\* fwrite(table, 1, IOBytes, output) on a stream with nothing in its buffer.
fwrite(table, buffered, cap) ==
    LET direct == IF buffered THEN IOBytes - (IOBytes % BufBlock) ELSE IOBytes
        taken  == Min(direct, cap)
    IN  IF taken < direct
          THEN [file |-> SubSeq(table, 1, taken), pending |-> <<>>, written |-> taken]
          ELSE [file    |-> SubSeq(table, 1, direct),
                pending |-> SubSeq(table, direct + 1, IOBytes),
                written |-> IOBytes]

\* fclose(output): what the buffer holds goes to the file, as far as the file
\* accepts it; 0 is returned if it took all of it, EOF (-1) if not.
fclose(file, pending, cap) ==
    LET room  == IF cap > Len(file) THEN cap - Len(file) ELSE 0
        moved == Min(Len(pending), room)
    IN  [file |-> file \o SubSeq(pending, 1, moved),
         ret  |-> IF moved < Len(pending) THEN -1 ELSE 0]

\* A mutant of corner_write: 0 is returned only when nothing was written.
corner_write_none_written(table, buffered, cap) ==
    LET w == fwrite(table, buffered, cap)
    IN  [file    |-> w.file,
         pending |-> w.pending,
         ret     |-> IF w.written = 0 THEN 0 ELSE 1]

\* corner_write(cornertable, output): fwrite of the table, 0 if short.
corner_write(table, buffered, cap) ==
    LET w == fwrite(table, buffered, cap)
    IN  [file    |-> w.file,
         pending |-> w.pending,
         ret     |-> IF w.written < IOBytes THEN 0 ELSE 1]

\* A mutant of corner_read: one byte less is asked for.
corner_read_short(table, file) ==
    LET read == Min(IOBytes - 1, Len(file))
    IN  [cornertable |-> [i \in 1..Len(table) |->
                             IF i <= read THEN file[i] ELSE table[i]],
         ret |-> IF read < IOBytes - 1 THEN 0 ELSE 1]

\* corner_read(cornertable, input): fread into the table, 0 if short.
corner_read(table, file) ==
    LET read == Min(IOBytes, Len(file))
    IN  [cornertable |-> [i \in 1..Len(table) |->
                             IF i <= read THEN file[i] ELSE table[i]],
         ret |-> IF read < IOBytes THEN 0 ELSE 1]

\* Every sequence of bytes of a length in `lengths`.
BytesOfLength(lengths) ==
    UNION {[1..n -> ByteValues] : n \in lengths}

IOInit ==
    /\ ioTable \in BytesOfLength({IOBytes})
    /\ ioBuffered \in BOOLEAN
    /\ ioSinkCap \in 0..(IOBytes + 1)
    /\ ioFile \in BytesOfLength(0..(IOBytes + 1))
    /\ ioPending = <<>>
    /\ ioBuffer = [i \in 1..IOBytes |-> 0]
    /\ ioWriteRet = -1
    /\ ioReadRet = -1
    /\ ioCloseRet = 1
    /\ ioAccepted = -1
    /\ ioSupplied = -1
    /\ ioTrace = <<>>

\* corner_write is called on the table: the file holds what it took, the
\* stream's buffer the rest.
CornerWrite ==
    /\ ioWriteRet = -1
    /\ ioReadRet = -1
    /\ LET w == corner_write(ioTable, ioBuffered, ioSinkCap)
       IN  ioFile' = w.file /\ ioPending' = w.pending /\ ioWriteRet' = w.ret
    /\ ioAccepted' = Len(ioFile') + Len(ioPending')
    /\ ioTrace' = Append(ioTrace, "write")
    /\ UNCHANGED <<ioTable, ioBuffered, ioSinkCap, ioBuffer, ioReadRet,
                   ioCloseRet, ioSupplied>>

\* The output is closed after corner_write has returned.
OutputClose ==
    /\ ioWriteRet # -1
    /\ ioCloseRet = 1
    /\ LET c == fclose(ioFile, ioPending, ioSinkCap)
       IN  ioFile' = c.file /\ ioCloseRet' = c.ret
    /\ ioPending' = <<>>
    /\ ioTrace' = Append(ioTrace, "close")
    /\ UNCHANGED <<ioTable, ioBuffered, ioSinkCap, ioBuffer, ioWriteRet,
                   ioReadRet, ioAccepted, ioSupplied>>

\* corner_read is called on the buffer and the file, read from its start.
CornerRead ==
    /\ ioReadRet = -1
    /\ LET r == corner_read(ioBuffer, ioFile)
       IN  ioBuffer' = r.cornertable /\ ioReadRet' = r.ret
    /\ ioSupplied' = Len(ioFile)
    /\ ioTrace' = Append(ioTrace, "read")
    /\ UNCHANGED <<ioTable, ioBuffered, ioSinkCap, ioFile, ioPending, ioWriteRet,
                   ioCloseRet, ioAccepted>>

IOIdle ==
    /\ ioTable = <<>> /\ ioBuffered = FALSE /\ ioSinkCap = 0 /\ ioFile = <<>>
    /\ ioPending = <<>> /\ ioBuffer = <<>>
    /\ ioWriteRet = -1 /\ ioReadRet = -1 /\ ioCloseRet = 1
    /\ ioAccepted = -1 /\ ioSupplied = -1 /\ ioTrace = <<>>

-----------------------------------------------------------------------------
(***************************************************************************)
(* The specifications                                                      *)
(***************************************************************************)

\* corner_generate
Init == GenInit /\ MapIdle /\ IOIdle

Next ==
    \/ GenerateRecord /\ UNCHANGED <<mapVars, ioVars>>
    \/ GenerateExpand /\ UNCHANGED <<mapVars, ioVars>>
    \/ GenerateSubtree /\ UNCHANGED <<mapVars, ioVars>>

Spec == Init /\ [][Next]_vars

\* corner_map
MapNext == MapCall /\ UNCHANGED <<genVars, ioVars>>

MapSpecInit == GenIdle /\ MapInit /\ IOIdle

MapSpec == MapSpecInit /\ [][MapNext]_vars

\* corner_write and corner_read
IONext ==
    \/ CornerWrite /\ UNCHANGED <<genVars, mapVars>>
    \/ OutputClose /\ UNCHANGED <<genVars, mapVars>>
    \/ CornerRead /\ UNCHANGED <<genVars, mapVars>>

IOSpecInit == GenIdle /\ MapIdle /\ IOInit

IOSpec == IOSpecInit /\ [][IONext]_vars

-----------------------------------------------------------------------------
(***************************************************************************)
(* What the claims speak of                                                *)
(***************************************************************************)

\* The cubes at each number of turns from r, up to MaxLevel turns:
\* Levels...[d + 1] holds those whose shortest way from r has d turns.
RECURSIVE Levels(_, _, _)
Levels(seen, frontier, acc) ==
    IF Len(acc) > MaxLevel THEN acc
    ELSE LET nxt == {cube_turn(s, i) : s \in frontier, i \in 0..(Branching - 1)} \ seen
         IN  Levels(seen \cup nxt, nxt, Append(acc, nxt))

LevelsOfRef == [r \in RefCubes |-> Levels({r}, {r}, <<{r}>>)]

\* The indexes of the cubes whose shortest way from r has d turns.
LevelIndexes ==
    [r \in RefCubes |->
        [d \in 0..MaxLevel |-> {corner_map(s) : s \in LevelsOfRef[r][d + 1]}]]

\* The indexes of the cubes at most d turns from the reference cube.
IndexesWithin(d) == UNION {LevelIndexes[solution][e] : e \in 0..d}

\* The cubes that sequences of exactly n turns make of cube r.
RECURSIVE ExactTurns(_, _)
ExactTurns(r, n) ==
    IF n = 0 THEN {r}
    ELSE {cube_turn(s, i) : s \in ExactTurns(r, n - 1), i \in 0..(Branching - 1)}

ExactOfRef == [r \in RefCubes |-> [n \in 0..MaxLevel |-> ExactTurns(r, n)]]

\* The cubes that exactly n turns make of the reference cube.
ExactlyAt(n) == ExactOfRef[solution][n]

\* The 4-bit entry of index i of a packed table: the low nibble of byte
\* i / 2 when i is even, the high nibble when i is odd.
NibbleAt(table, i) ==
    IF i % 2 = 0 THEN ByteAt(table, i \div 2) % 16 ELSE ByteAt(table, i \div 2) \div 16

-----------------------------------------------------------------------------
(***************************************************************************)
(* The claims                                                              *)
(***************************************************************************)

\* A step of the generator that is one pass of the while loop.
OnePass == pc = "loop" /\ pc' = "loop" /\ popcount' = popcount + 1

\* The table `new` is the table `old` but for the bytes of `bytes`.
OnlyBytesChanged(old, new, bytes) ==
    new = [fill   |-> old.fill,
           stored |-> [b \in bytes \cap DOMAIN new.stored |-> new.stored[b]]
                          @@ old.stored]

\* The two indexes whose entries the byte of index i holds.
ByteIndexes(i) == {2 * (i \div 2), 2 * (i \div 2) + 1}

\* C4: the solution's index is recorded in iteration 0 and never again: its
\* entry is 0 in every state, and the only pass that counts it is the first
\* pass of iteration 0.
C4_SolutionKept ==
    /\ NibbleAt(cornertable, corner_map(solution)) = 0
    /\ popcount >= 1 => count >= 1
    /\ (lastPop.kind = "recorded" /\ lastPop.hash = corner_map(solution)) =>
          /\ lastPop.level = 0
          /\ popcount = 1
          /\ count = 1

C4_Witness ==
    /\ pc = "loop"
    /\ depth >= 3
    /\ lastPop.kind = "expanded"
    /\ lastPop.distance = 1
    /\ lastPop.pushed >= 12
    /\ NibbleAt(cornertable, corner_map(solution)) = 0
    /\ count > 262

\* C6: corner_map of a cube whose corner slots hold a permutation of the
\* corner cubies with orientations 0..2 is in 0..88179839; two cubes get the
\* same index exactly when their first seven corner slots agree; and an index
\* of the range is the index of the one combination it decodes to.
C6_PerfectHash ==
    mapOut # <<>> =>
        /\ mapOut[1] \in 0..(HashRange - 1)
        /\ mapOut[2] \in 0..(HashRange - 1)
        /\ (mapOut[1] = mapOut[2]) <=> (FirstSeven(mapA) = FirstSeven(mapB))
        /\ FirstSeven(CubeOfIndex(mapOut[1])) = FirstSeven(mapA)
        /\ mapOut[3] = mapProbe

C6_Witness ==
    /\ mapOut # <<>>
    /\ mapA # mapB
    /\ mapA # SolvedCube
    /\ mapOut[1] = mapOut[2]
    /\ mapProbe = HashRange - 1
    /\ mapOut[3] = mapProbe

\* C8: a pass of the loop changes in the table only the entry of the index it
\* records, and in the visited table, once cleared for a new level, only the
\* entries of the indexes it pushes; the other entry of the same byte and
\* every other entry stay as they are.
C8_OnlyOwnNibble ==
    [][ LET lvl     == LevelStart(stack, depth, instack)
            current == stack_peek(lvl.stack)
            kept    == Len(lvl.stack) - 1
            pushed  == {corner_map(stack'[j].cube_data) : j \in (kept + 1)..Len(stack')}
        IN  OnePass =>
              /\ OnlyBytesChanged(cornertable, cornertable',
                                  IF current.distance = lvl.depth
                                    THEN {corner_map(current.cube_data) \div 2}
                                    ELSE {})
              /\ \A i \in ByteIndexes(corner_map(current.cube_data)) :
                    NibbleAt(cornertable', i) # NibbleAt(cornertable, i) =>
                        /\ current.distance = lvl.depth
                        /\ i = corner_map(current.cube_data)
              /\ OnlyBytesChanged(lvl.instack, instack',
                                  IF current.distance = lvl.depth
                                    THEN {}
                                    ELSE {h \div 2 : h \in pushed})
              /\ \A h \in pushed : \A i \in ByteIndexes(h) :
                    NibbleAt(instack', i) # NibbleAt(lvl.instack, i) =>
                        /\ current.distance # lvl.depth
                        /\ i \in pushed
      ]_vars

C8_Witness ==
    /\ pc = "loop"
    /\ \E i \in StoredIndexes(cornertable) :
          /\ i % 2 = 1
          /\ NibbleAt(cornertable, i) >= 1
    /\ \E i \in StoredIndexes(instack) :
          /\ i % 2 = 0
          /\ NibbleAt(instack, i) \in 1..14
          /\ NibbleAt(instack, i + 1) = 15

\* The read was made after the write and found in the file all that the
\* write had placed: the output was not buffered, or was closed before.
ReadAfterWrite ==
    \E j, k \in 1..Len(ioTrace) :
        /\ j < k
        /\ ioTrace[j] = "write"
        /\ ioTrace[k] = "read"
        /\ ioBuffered => \E c \in (j + 1)..(k - 1) : ioTrace[c] = "close"

\* C9: a table written by corner_write to an output whose file has accepted
\* all of it, and then read back by corner_read, is byte for byte the table,
\* and both calls return 1.
C9_RoundTrip ==
    (ioSinkCap >= IOBytes /\ ReadAfterWrite) =>
        /\ ioWriteRet = 1
        /\ ioReadRet = 1
        /\ ioBuffer = ioTable

C9_Witness ==
    /\ ioSinkCap = IOBytes
    /\ ioBuffered
    /\ ioTrace = <<"write", "close", "read">>
    /\ ioWriteRet = 1
    /\ ioReadRet = 1
    /\ ioBuffer = ioTable
    /\ \A i \in 1..IOBytes : ioTable[i] # 0

\* C10: corner_write returns 0 exactly when the output it was handed took
\* fewer bytes than the table has, and 1 otherwise; corner_read returns 0
\* exactly when the input had fewer bytes than the table has, and 1
\* otherwise.
C10_ReturnValues ==
    /\ ioWriteRet # -1 =>
          /\ ioWriteRet \in {0, 1}
          /\ ioWriteRet = 0 <=> ioAccepted < IOBytes
    /\ ioReadRet # -1 =>
          /\ ioReadRet \in {0, 1}
          /\ ioReadRet = 0 <=> ioSupplied < IOBytes

C10_Witness ==
    /\ ioTrace = <<"write", "read">>
    /\ ioWriteRet = 0
    /\ ioAccepted = IOBytes - 1
    /\ ioReadRet = 0
    /\ ioSupplied = IOBytes - 1
    /\ ioBuffer # ioTable

\* C11: a pass of the loop whose item is at the target depth and whose entry
\* is set already leaves the table and the counter as they are; and no pass
\* changes an entry that is not 0.
C11_DuplicateLeft ==
    [][ LET lvl     == LevelStart(stack, depth, instack)
            current == stack_peek(lvl.stack)
        IN  OnePass =>
              /\ (/\ current.distance = lvl.depth
                  /\ NibbleAt(cornertable, corner_map(current.cube_data)) # 0)
                    => /\ cornertable' = cornertable
                       /\ count' = count
              /\ OnlyBytesChanged(cornertable, cornertable',
                                  {corner_map(current.cube_data) \div 2})
              /\ \A i \in ByteIndexes(corner_map(current.cube_data)) :
                    NibbleAt(cornertable, i) # 0 =>
                        NibbleAt(cornertable', i) = NibbleAt(cornertable, i)
      ]_vars

C11_Witness ==
    /\ pc = "loop"
    /\ lastPop.kind = "duplicate"
    /\ lastPop.distance >= 2
    /\ NibbleAt(cornertable, lastPop.hash) \in 1..(lastPop.distance - 1)

\* The entries of the bytes stored into a table that are not `none`, as a
\* function of their indexes.
EntriesBelow(table, none) ==
    LET low  == {b \in DOMAIN table.stored : table.stored[b] % 16 # none}
        high == {b \in DOMAIN table.stored : table.stored[b] \div 16 # none}
    IN  [i \in {2 * b : b \in low} \cup {2 * b + 1 : b \in high} |->
            IF i % 2 = 0 THEN table.stored[i \div 2] % 16
                         ELSE table.stored[i \div 2] \div 16]

\* C12: with the visited table reset to zero at the start of each iteration
\* and 0 meaning not pushed, a turned cube is thrown away by the filter only
\* if the for loop has pushed a frame of its index in this iteration at
\* distance <= dist + 1; otherwise it is pushed and its entry becomes
\* dist + 1; so in every state the entry of an index is the least distance at
\* which the for loop has pushed it in this iteration, 0 if it has not.
C12_ZeroMeansNotPushed ==
    /\ []((clearByte = 0 /\ depth >= 0) =>
            /\ instack.fill = 0
            /\ EntriesBelow(instack, 0) = shallowest)
    /\ [][ LET lvl     == LevelStart(stack, depth, instack)
                current == stack_peek(lvl.stack)
                before  == PushesAtStart(stack, shallowest)
                kept    == Len(lvl.stack) - 1
            IN  (clearByte = 0 /\ OnePass /\ current.distance # lvl.depth) =>
                  \A i \in 0..(Branching - 1) :
                      LET turned == cube_turn(current.cube_data, i)
                          hash   == corner_map(turned)
                          found  == \E j \in (kept + 1)..Len(stack') :
                                       /\ stack'[j].cube_data = turned
                                       /\ stack'[j].turn = i
                                       /\ stack'[j].distance = current.distance + 1
                      IN  /\ (/\ ~(current.turn # -1 /\ SHOULDIAVOID(i, current.turn))
                              /\ ~(hash \in DOMAIN before
                                     /\ before[hash] <= current.distance + 1))
                                => /\ found
                                   /\ NibbleAt(instack', hash) = current.distance + 1
                          /\ (/\ hash \in DOMAIN before
                              /\ before[hash] <= current.distance + 1) => ~found
          ]_vars

\* The corner number of the cubie that the k-th call of corner_value of a
\* corner_map call on `cube` is made for (k from 0).
CornerOfCall(cube, k) == corner_index[CUBIE(cube, PositionOfIndex[k + 1])[1]]

\* The rank of the k-th call's corner number among the corner numbers that
\* the earlier calls were not made for.
RankOfCall(cube, k) ==
    LET earlier == {CornerOfCall(cube, j) : j \in 0..(k - 1)}
    IN  Cardinality({c \in (0..7) \ earlier : c < CornerOfCall(cube, k)})

\* C15: in a call of corner_map the k-th call of corner_value, k = 0..6,
\* returns a digit in 0..7-k: the rank of the cubie's corner number among the
\* corner numbers not passed in the earlier calls.
C15_DigitIsRank ==
    mapOut # <<>> =>
        \A k \in 0..6 :
            /\ mapDigits[1][k + 1] \in 0..(7 - k)
            /\ mapDigits[1][k + 1] = RankOfCall(mapA, k)
            /\ mapDigits[2][k + 1] \in 0..(7 - k)
            /\ mapDigits[2][k + 1] = RankOfCall(CubeOfIndex(mapProbe), k)

C15_Witness ==
    /\ mapOut # <<>>
    /\ \E k \in 1..6 :
          /\ mapDigits[1][k + 1] # CornerOfCall(mapA, k)
          /\ mapDigits[1][k + 1] = RankOfCall(mapA, k)
          /\ mapDigits[1][k + 1] > 0
    /\ mapProbe = HashRange - 1
    /\ mapDigits[2] = <<7, 6, 5, 4, 3, 2, 1>>

\* C16: corner_map of the solved cube, every corner slot holding its own
\* cubie with orientation 0, is 0.
C16_SolvedIsZero ==
    (mapOut # <<>> /\ mapA = SolvedCube) =>
        /\ mapOut[1] = 0
        /\ mapDigits[1] = <<0, 0, 0, 0, 0, 0, 0>>

C16_Witness ==
    /\ mapA = SolvedCube
    /\ mapOut # <<>>
    /\ mapOut[1] = 0

\* C17: the stack never holds more frames than 18 times the target depth,
\* and at most 1 in iteration 0, also right after the reference cube is
\* pushed at the start of an iteration.
C17_StackBound ==
    LET lvl == LevelStart(stack, depth, instack)
    IN  pc = "loop" =>
          /\ depth = -1 => Len(stack) = 0
          /\ depth = 0 => Len(stack) <= 1
          /\ depth >= 1 => Len(stack) <= 18 * depth
          /\ lvl.depth = 0 => Len(lvl.stack) <= 1
          /\ lvl.depth >= 1 => Len(lvl.stack) <= 18 * lvl.depth

C17_Witness ==
    /\ pc = "loop"
    /\ depth = 1
    /\ Len(stack) = 18
    /\ lastPop.kind = "expanded"
    /\ lastPop.pushed = 18

\* C18: when an iteration has emptied the stack, every cube whose minimum
\* number of turns from the reference cube is the target depth, the
\* reference cube apart, has the target depth as its entry, and every entry
\* that is not 0 is the entry of a cube at most that many turns away.
C18_LevelComplete ==
    (pc = "loop" /\ depth \in 0..MaxLevel /\ Len(stack) = 0) =>
        /\ \A i \in LevelIndexes[solution][depth] :
              i # corner_map(solution) => NibbleAt(cornertable, i) = depth
        /\ \A i \in StoredIndexes(cornertable) :
              NibbleAt(cornertable, i) # 0 => i \in IndexesWithin(depth)
        /\ cornertable.fill = 0

\* C19: every frame on the stack has a distance from 0 to the target depth
\* and holds a cube that exactly that many turns make of the reference cube;
\* a pass of the loop whose item is at the target depth pushes nothing, one
\* whose item is not at it leaves the table alone, and an entry that a pass
\* changes becomes the target depth.
C19_FrameDistances ==
    /\ [](\A j \in 1..Len(stack) :
              /\ stack[j].distance \in 0..depth
              /\ stack[j].distance = 0 =>
                    stack[j].cube_data = solution /\ stack[j].turn = -1
              /\ stack[j].distance <= MaxLevel =>
                    stack[j].cube_data \in ExactlyAt(stack[j].distance))
    /\ [][ LET lvl     == LevelStart(stack, depth, instack)
                current == stack_peek(lvl.stack)
                kept    == Len(lvl.stack) - 1
            IN  OnePass =>
                  /\ current.distance = lvl.depth => stack' = stack_pop(lvl.stack)
                  /\ current.distance # lvl.depth =>
                        /\ current.distance < lvl.depth
                        /\ cornertable' = cornertable
                  /\ \A j \in (kept + 1)..Len(stack') :
                        /\ stack'[j].distance = current.distance + 1
                        /\ stack'[j].cube_data =
                              cube_turn(current.cube_data, stack'[j].turn)
                  /\ OnlyBytesChanged(cornertable, cornertable',
                                      {corner_map(current.cube_data) \div 2})
                  /\ \A i \in ByteIndexes(corner_map(current.cube_data)) :
                        NibbleAt(cornertable', i) # NibbleAt(cornertable, i) =>
                            /\ NibbleAt(cornertable', i) = depth'
                            /\ current.distance = depth'
                            /\ i = corner_map(current.cube_data)
          ]_vars

C19_Witness ==
    /\ pc = "loop"
    /\ depth >= 3
    /\ lastPop.kind = "recorded"
    /\ lastPop.distance = depth
    /\ NibbleAt(cornertable, lastPop.hash) = depth
    /\ \E j \in 1..Len(stack) : stack[j].distance = depth
    /\ \E j \in 1..Len(stack) : stack[j].distance \in 1..(depth - 1)

=============================================================================
